---- MODULE Spec2Model ----
(***************************************************************************)
(* Model of prisma/seed.ts: the CSV -> PostgreSQL seed script.             *)
(*                                                                         *)
(* main() calls six seed functions in a fixed order.  Each one reads one  *)
(* CSV file (parseCSV), and upserts every row through the Prisma client,  *)
(* awaiting each call inside a per-row try/catch.  The store (Prisma +    *)
(* PostgreSQL), the filesystem and the csv-parse library are outside the  *)
(* script; they are modelled by their visible outcomes.                   *)
(***************************************************************************)
EXTENDS Integers, Sequences, FiniteSets, TLC

VARIABLES
    files,        \* the CSV directory: entity -> [kind, rows]; never written by the script
    store,        \* the database: entity -> (id -> stored record)
    clock,        \* the wall clock read by `new Date()`
    run,          \* which execution of the script this is
    snap,         \* the database as the previous execution left it
    pc,           \* position of main()
    entIdx,       \* index in EntityOrder of the seed function being run
    rows,         \* the local array returned by parseCSV in the current seed function
    rowIdx,       \* position of the for-of loop in rows
    inflight,     \* upsert calls issued and not yet settled
    log,          \* console output of this execution
    disconnects,  \* number of prisma.$disconnect() calls of this execution
    thrown,       \* main()'s promise carries an error
    surfaced,     \* the caller's .catch handler has run
    exitCode,     \* process exit code, NoExit while running
    invoked,      \* seed functions called so far in this execution
    done,         \* seed functions that returned in this execution
    outcomes,     \* per entity, what happened to each row so far
    issued        \* every upsert call issued in this execution, in order

vars == <<files, store, clock, run, snap, pc, entIdx, rows, rowIdx, inflight,
          log, disconnects, thrown, surfaced, exitCode, invoked, done,
          outcomes, issued>>

----------------------------------------------------------------------------
(* Bounds *)

MaxRows == 2

----------------------------------------------------------------------------
(* Small helpers *)

Min(a, b) == IF a < b THEN a ELSE b

----------------------------------------------------------------------------
(* Field coercion: seed.ts lines 116-136, and the Date constructor *)

\* A CSV field is a string.  Numeric columns are modelled as sequences of
\* characters so that parseInt / parseFloat are computed, not assumed.
Digits == {"0", "1", "2", "3", "4", "5", "6", "7", "8", "9"}

DigitVal(c) ==
    CASE c = "0" -> 0 [] c = "1" -> 1 [] c = "2" -> 2 [] c = "3" -> 3
      [] c = "4" -> 4 [] c = "5" -> 5 [] c = "6" -> 6 [] c = "7" -> 7
      [] c = "8" -> 8 [] c = "9" -> 9

RECURSIVE SkipSpaces(_)
SkipSpaces(s) ==
    IF s # <<>> /\ Head(s) = " " THEN SkipSpaces(Tail(s)) ELSE s

\* the longest prefix of s made of digits
RECURSIVE DigitPrefix(_)
DigitPrefix(s) ==
    IF s # <<>> /\ Head(s) \in Digits
    THEN <<Head(s)>> \o DigitPrefix(Tail(s))
    ELSE <<>>

RECURSIVE DigitsValue(_, _)
DigitsValue(s, acc) ==
    IF s = <<>> THEN acc ELSE DigitsValue(Tail(s), 10 * acc + DigitVal(Head(s)))

\* a JavaScript number that may be NaN
NaN == [nan |-> TRUE, v |-> 0]
Num(n) == [nan |-> FALSE, v |-> n]

\* JavaScript parseInt(value, 10): leading blanks, an optional sign, then the
\* longest run of digits; NaN when that run is empty.  Trailing text is ignored.
ParseInt(value) ==
    LET t    == SkipSpaces(value)
        neg  == t # <<>> /\ Head(t) = "-"
        body == IF t # <<>> /\ Head(t) \in {"-", "+"} THEN Tail(t) ELSE t
        ds   == DigitPrefix(body)
    IN  IF ds = <<>> THEN NaN
        ELSE Num(IF neg THEN 0 - DigitsValue(ds, 0) ELSE DigitsValue(ds, 0))

\* A float value is kept exact: sign, integer part, fractional digits without
\* trailing zeros.
RECURSIVE StripZeros(_)
StripZeros(ds) ==
    IF ds # <<>> /\ ds[Len(ds)] = "0" THEN StripZeros(SubSeq(ds, 1, Len(ds) - 1))
    ELSE ds

Float(neg, i, f) == [neg |-> neg /\ (i # 0 \/ f # <<>>), int |-> i, frac |-> f]
FloatZero == Float(FALSE, 0, <<>>)

\* JavaScript parseFloat(value): sign, digits, optionally "." and digits;
\* NaN when no digit was read.
ParseFloat(value) ==
    LET t     == SkipSpaces(value)
        neg   == t # <<>> /\ Head(t) = "-"
        body  == IF t # <<>> /\ Head(t) \in {"-", "+"} THEN Tail(t) ELSE t
        ip    == DigitPrefix(body)
        rest  == SubSeq(body, Len(ip) + 1, Len(body))
        fp    == IF rest # <<>> /\ Head(rest) = "." THEN DigitPrefix(Tail(rest)) ELSE <<>>
    IN  IF ip = <<>> /\ fp = <<>> THEN [nan |-> TRUE, v |-> FloatZero]
        ELSE [nan |-> FALSE, v |-> Float(neg, DigitsValue(ip, 0), StripZeros(fp))]

\* Boolean columns are plain strings.
parseBoolean(value) ==
    value = "true" \/ value = "1" \/ value = "t" \/ value = "True"

\* parseIntValue returns the number and the console.warn calls it made.
parseIntValue(value) ==
    LET parsed == ParseInt(value)
    IN  IF parsed.nan THEN [v |-> 0, warn |-> <<"parse-int">>]
        ELSE [v |-> parsed.v, warn |-> <<>>]

parseFloatValue(value) ==
    LET parsed == ParseFloat(value)
    IN  IF parsed.nan THEN [v |-> FloatZero, warn |-> <<"parse-float">>]
        ELSE [v |-> parsed.v, warn |-> <<>>]

\* A column the CSV header does not have reads as undefined.
Absent == "<undefined>"

\* JavaScript truthiness of an optional string field
Truthy(value) == value # Absent /\ value # ""

\* Time values are whole numbers; the time value of an Invalid Date is NaN,
\* written InvalidDate.
InvalidDate == -1

\* the date strings that the Date constructor can parse, with their time value
KnownDates ==
    [s \in {"2025-12-20T10:00:00Z", "2025-12-21T10:00:00Z"} |->
        IF s = "2025-12-20T10:00:00Z" THEN 1 ELSE 2]

\* new Date(value) for a string (or undefined) argument
NewDate(value) ==
    IF value \in DOMAIN KnownDates THEN KnownDates[value] ELSE InvalidDate

\* the clock when the first execution starts: later than every date in the files
Now0 == 10

----------------------------------------------------------------------------
(* main(): the order of the seed functions, and the foreign keys *)

\* main() with the seed calls in another order: cart items before products
EntityOrderCartItemsFirst ==
    <<"cartItem", "product", "cart", "favorite", "order", "review">>

\* the order in which main() awaits the six seed functions
EntityOrder ==
    <<"product", "cart", "cartItem", "favorite", "order", "review">>

Entities == {"product", "cart", "cartItem", "favorite", "order", "review"}

\* the tables each table's rows point into, by which column
ForeignKeys ==
    [e \in Entities |->
        CASE e = "cartItem" -> {<<"productId", "product">>, <<"cartId", "cart">>}
          [] e = "favorite" -> {<<"productId", "product">>}
          [] e = "review"   -> {<<"productId", "product">>}
          [] OTHER          -> {}]

References(e) == {fk[2] : fk \in ForeignKeys[e]}

----------------------------------------------------------------------------
(* The argument of each prisma.<model>.upsert call.                         *)
(* A call is [ent, row, where, update, create, warns]: warns lists the      *)
(* console.warn calls made while the argument object is evaluated, in       *)
(* evaluation order (the update object first, then the create object).      *)

WithId(id, data) == [f \in DOMAIN data \cup {"id"} |-> IF f = "id" THEN id ELSE data[f]]

productCall(product) ==
    LET uPrice == parseIntValue(product.price)
        cPrice == parseIntValue(product.price)
        data(price) ==
            [name        |-> product.name,
             company     |-> product.company,
             description |-> product.description,
             featured    |-> parseBoolean(product.featured),
             image       |-> product.image,
             price       |-> price,
             clerkId     |-> product.clerkId,
             createdAt   |-> NewDate(product.createdAt),
             updatedAt   |-> NewDate(product.updatedAt)]
    IN  [where  |-> product.id,
         update |-> data(uPrice.v),
         create |-> WithId(product.id, data(cPrice.v)),
         warns  |-> uPrice.warn \o cPrice.warn]

cartCall(cart) ==
    LET n  == parseIntValue(cart.numItemsInCart)
        ct == parseIntValue(cart.cartTotal)
        sh == parseIntValue(cart.shipping)
        tx == parseIntValue(cart.tax)
        tr == parseFloatValue(cart.taxRate)
        ot == parseIntValue(cart.orderTotal)
        data ==
            [clerkId        |-> cart.clerkId,
             numItemsInCart |-> n.v,
             cartTotal      |-> ct.v,
             shipping       |-> sh.v,
             tax            |-> tx.v,
             taxRate        |-> tr.v,
             orderTotal     |-> ot.v,
             createdAt      |-> NewDate(cart.createdAt),
             updatedAt      |-> NewDate(cart.updatedAt)]
        once == n.warn \o ct.warn \o sh.warn \o tx.warn \o tr.warn \o ot.warn
    IN  [where  |-> cart.id,
         update |-> data,
         create |-> WithId(cart.id, data),
         warns  |-> once \o once]

cartItemCall(cartItem) ==
    LET amount == parseIntValue(cartItem.amount)
        data ==
            [productId |-> cartItem.productId,
             cartId    |-> cartItem.cartId,
             amount    |-> amount.v,
             createdAt |-> NewDate(cartItem.createdAt),
             updatedAt |-> NewDate(cartItem.updatedAt)]
    IN  [where  |-> cartItem.id,
         update |-> data,
         create |-> WithId(cartItem.id, data),
         warns  |-> amount.warn \o amount.warn]

\* the guard of the favorites loop that checks only the id column
MissingIdentifierIdOnly(favorite) == ~Truthy(favorite.id)

\* seedFavorites: `!favorite.id || !favorite.clerkId || !favorite.productId`
MissingIdentifier(favorite) ==
    ~Truthy(favorite.id) \/ ~Truthy(favorite.clerkId) \/ ~Truthy(favorite.productId)

\* now is the value of `new Date()` while the argument is evaluated
favoriteCall(favorite, now) ==
    LET data ==
            [clerkId   |-> favorite.clerkId,
             productId |-> favorite.productId,
             createdAt |-> IF Truthy(favorite.createdAt)
                           THEN NewDate(favorite.createdAt) ELSE now,
             updatedAt |-> IF Truthy(favorite.updatedAt)
                           THEN NewDate(favorite.updatedAt) ELSE now]
    IN  [where  |-> favorite.id,
         update |-> data,
         create |-> WithId(favorite.id, data),
         warns  |-> <<>>]

orderCall(order) ==
    LET pr == parseIntValue(order.products)
        ot == parseIntValue(order.orderTotal)
        tx == parseIntValue(order.tax)
        sh == parseIntValue(order.shipping)
        data ==
            [clerkId    |-> order.clerkId,
             products   |-> pr.v,
             orderTotal |-> ot.v,
             tax        |-> tx.v,
             shipping   |-> sh.v,
             email      |-> order.email,
             isPaid     |-> parseBoolean(order.isPaid),
             createdAt  |-> NewDate(order.createdAt),
             updatedAt  |-> NewDate(order.updatedAt)]
        once == pr.warn \o ot.warn \o tx.warn \o sh.warn
    IN  [where  |-> order.id,
         update |-> data,
         create |-> WithId(order.id, data),
         warns  |-> once \o once]

reviewCall(review) ==
    LET rating == parseIntValue(review.rating)
        data ==
            [clerkId        |-> review.clerkId,
             rating         |-> rating.v,
             comment        |-> review.comment,
             authorName     |-> review.authorName,
             authorImageUrl |-> review.authorImageUrl,
             productId      |-> review.productId,
             createdAt      |-> NewDate(review.createdAt),
             updatedAt      |-> NewDate(review.updatedAt)]
    IN  [where  |-> review.id,
         update |-> data,
         create |-> WithId(review.id, data),
         warns  |-> rating.warn \o rating.warn]

\* the upsert argument a seed function builds for one row
CallFor(e, row, now) ==
    CASE e = "product"  -> productCall(row)
      [] e = "cart"     -> cartCall(row)
      [] e = "cartItem" -> cartItemCall(row)
      [] e = "favorite" -> favoriteCall(row, now)
      [] e = "order"    -> orderCall(row)
      [] e = "review"   -> reviewCall(row)

\* only seedFavorites has a guard before its try block
SkipsRow(e, row) == e = "favorite" /\ MissingIdentifier(row)

----------------------------------------------------------------------------
(* The store: prisma.<model>.upsert as seen by the script *)

\* the client refuses an argument that holds an Invalid Date
ValidArgs(call) ==
    /\ call.update.createdAt # InvalidDate
    /\ call.update.updatedAt # InvalidDate
    /\ call.create.createdAt # InvalidDate
    /\ call.create.updatedAt # InvalidDate

\* the database refuses a row whose foreign key has no target
KeysResolve(e, call, st) ==
    \A fk \in ForeignKeys[e] : call.create[fk[1]] \in DOMAIN st[fk[2]]

Accepts(e, call, st) == ValidArgs(call) /\ KeysResolve(e, call, st)

\* update-if-exists / insert-if-absent on the id
Upserted(e, call, st) ==
    LET table == st[e]
        rec   == IF call.where \in DOMAIN table
                 THEN [f \in DOMAIN table[call.where] |->
                          IF f \in DOMAIN call.update THEN call.update[f]
                          ELSE table[call.where][f]]
                 ELSE call.create
    IN  [st EXCEPT ![e] = (call.where :> rec) @@ table]

----------------------------------------------------------------------------
(* Inputs: the CSV directory and the database before the first execution *)

Str19  == <<"1", "9">>
StrAbc == <<"a", "b", "c">>

D1 == "2025-12-20T10:00:00Z"
D2 == "2025-12-21T10:00:00Z"

ProductRow(id, price, featured, createdAt) ==
    [id |-> id, name |-> "Lamp", company |-> "Ikea", description |-> "A lamp",
     featured |-> featured, image |-> "/lamp.png", price |-> price,
     createdAt |-> createdAt, updatedAt |-> D2, clerkId |-> "user_1"]

CartRow(id, numItems, taxRate, createdAt) ==
    [id |-> id, clerkId |-> "user_1", numItemsInCart |-> numItems,
     cartTotal |-> <<"3", "8">>, shipping |-> <<"5">>, tax |-> <<"4">>,
     taxRate |-> taxRate, orderTotal |-> <<"4", "7">>,
     createdAt |-> createdAt, updatedAt |-> D2]

CartItemRow(id, productId, cartId, amount) ==
    [id |-> id, productId |-> productId, cartId |-> cartId, amount |-> amount,
     createdAt |-> D1, updatedAt |-> D2]

FavoriteRow(id, clerkId, productId, createdAt, updatedAt) ==
    [id |-> id, clerkId |-> clerkId, productId |-> productId,
     createdAt |-> createdAt, updatedAt |-> updatedAt]

OrderRow(id, products, isPaid) ==
    [id |-> id, clerkId |-> "user_1", products |-> products,
     orderTotal |-> <<"4", "7">>, tax |-> <<"4">>, shipping |-> <<"5">>,
     email |-> "a@b.c", isPaid |-> isPaid, createdAt |-> D1, updatedAt |-> D2]

ReviewRow(id, rating, productId) ==
    [id |-> id, clerkId |-> "user_1", rating |-> rating, comment |-> "ok",
     authorName |-> "Ann", authorImageUrl |-> "/ann.png",
     createdAt |-> D1, updatedAt |-> D2, productId |-> productId]

\* the data rows each file can hold; a file holds a prefix of its table
Table ==
    [e \in Entities |->
        CASE e = "product" ->
               <<ProductRow("P1", Str19, "true", D1),
                 ProductRow("P2", StrAbc, "yes", D1),
                 ProductRow("P1", <<"7", "e", "u", "r">>, "t", D2)>>
          [] e = "cart" ->
               <<CartRow("K1", <<"2">>, <<"0", ".", "1", "0">>, D1),
                 CartRow("K2", <<>>, <<"x">>, "not a date"),
                 CartRow("K1", <<"-", "1">>, <<".", "5">>, D2)>>
          [] e = "cartItem" ->
               <<CartItemRow("I1", "P9", "K1", <<"1">>),
                 CartItemRow("I2", "P1", "K1", <<"2">>),
                 CartItemRow("I3", "P2", "K1", <<"3", "x">>)>>
          [] e = "favorite" ->
               <<FavoriteRow("F1", "user_1", "", D1, D2),
                 FavoriteRow("F2", "user_1", "P1", Absent, ""),
                 FavoriteRow("F3", "user_2", "P1", "yesterday", D2)>>
          [] e = "order" ->
               <<OrderRow("O1", <<"2">>, "t"),
                 OrderRow("O2", <<"t", "w", "o">>, "false"),
                 OrderRow("O1", <<"3">>, "True")>>
          [] e = "review" ->
               <<ReviewRow("R1", <<"5">>, "P2"),
                 ReviewRow("R2", <<"4">>, "P1"),
                 ReviewRow("R3", StrAbc, "P1")>>]

\* a file is absent, has no data line, cannot be read or parsed, or has rows:
\* the first row of its table, or the first MaxRows rows
NoRows == <<>>
FilesOf(e) ==
    {[kind |-> k, rows |-> NoRows] : k \in {"missing", "empty", "malformed"}}
    \cup {[kind |-> "ok", rows |-> SubSeq(Table[e], 1, n)] :
             n \in {1, Min(MaxRows, Len(Table[e]))}}

EmptyTable == [id \in {} |-> id]
EmptyStore == [e \in Entities |-> EmptyTable]

\* a database that an earlier migration of older files has filled
StaleStore ==
    [EmptyStore EXCEPT
        !["product"] = "P1" :> WithId("P1", productCall(ProductRow("P1", <<"5">>, "false", D1)).update),
        !["favorite"] = "F2" :> [id |-> "F2", clerkId |-> "user_0", productId |-> "P1",
                                 createdAt |-> 1, updatedAt |-> 1]]

InitStores == {EmptyStore, StaleStore}

----------------------------------------------------------------------------
(* The script as a state machine *)

Line(lvl, msg, e, row, n) == [lvl |-> lvl, msg |-> msg, ent |-> e, row |-> row, n |-> n]

\* one console.warn line per warning raised while building the call for a row
WarnLines(ws, e, row) == [i \in 1..Len(ws) |-> Line("warn", ws[i], e, row, 0)]

NoOutcomes == [e \in Entities |-> <<>>]

\* the state of a fresh process
Fresh ==
    /\ pc = "start"
    /\ entIdx = 1
    /\ rows = <<>>
    /\ rowIdx = 1
    /\ inflight = {}
    /\ log = <<>>
    /\ disconnects = 0
    /\ thrown = FALSE
    /\ surfaced = FALSE
    /\ exitCode = 0
    /\ invoked = {}
    /\ done = {}
    /\ outcomes = NoOutcomes
    /\ issued = <<>>

\* every combination of one file per entity
Directories(P, K, I, F, O, R) ==
    {[product |-> p, cart |-> k, cartItem |-> i, favorite |-> f, order |-> o, review |-> r] :
        p \in P, k \in K, i \in I, f \in F, o \in O, r \in R}

AllDirectories ==
    Directories(FilesOf("product"), FilesOf("cart"), FilesOf("cartItem"),
                FilesOf("favorite"), FilesOf("order"), FilesOf("review"))

Init ==
    /\ files \in AllDirectories
    /\ store \in InitStores
    /\ snap = store
    /\ clock = Now0
    /\ run = 1
    /\ Fresh

CurEntity == EntityOrder[entIdx]

\* where main() goes when a seed function returns
AfterSeed == IF entIdx = Len(EntityOrder) THEN "success" ELSE "call"

\* the upsert is not awaited: the loop goes on while the call is pending
AfterIssueNoAwait == "loop"

\* `await prisma.<model>.upsert(...)`: the loop is suspended until the call settles
AfterIssue == "await"

\* no try/catch around the upsert: the rejection leaves the seed function
AfterRejectNoCatch == "catch"

\* the per-row catch block logs and falls through to the next iteration
AfterReject == "loop"

\* main() without the finally block: the rethrow rejects main()'s promise directly
AfterCatchNoFinally == "rejected"

\* main()'s catch block rethrows; the finally block runs before the promise settles
AfterCatch == "finally"

\* the caller's handler ending the process normally
ExitCodeOnErrorZero == 1 - 1

\* process.exit(1) in the caller's .catch handler
ExitCodeOnError == 1

\* main(), lines 400-401
Start ==
    /\ pc = "start"
    /\ pc' = "call"
    /\ log' = log \o <<Line("log", "starting", "", 0, 0), Line("log", "csv-dir", "", 0, 0)>>
    /\ UNCHANGED <<files, store, clock, run, snap, entIdx, rows, rowIdx, inflight,
                   disconnects, thrown, surfaced, exitCode, invoked, done,
                   outcomes, issued>>

\* a seed function whose file does not exist: parseCSV warns and returns [],
\* the seed function logs and returns
ParseMissing ==
    /\ pc = "call"
    /\ files[CurEntity].kind = "missing"
    /\ log' = log \o <<Line("log", "seeding", CurEntity, 0, 0),
                       Line("warn", "file-not-found", CurEntity, 0, 0),
                       Line("log", "nothing-to-seed", CurEntity, 0, 0)>>
    /\ invoked' = invoked \cup {CurEntity}
    /\ done' = done \cup {CurEntity}
    /\ entIdx' = entIdx + 1
    /\ pc' = AfterSeed
    /\ UNCHANGED <<files, store, clock, run, snap, rows, rowIdx, inflight,
                   disconnects, thrown, surfaced, exitCode, outcomes, issued>>

\* a seed function whose file is blank or has only the header line
ParseEmpty ==
    /\ pc = "call"
    /\ files[CurEntity].kind = "empty"
    /\ log' = log \o <<Line("log", "seeding", CurEntity, 0, 0),
                       Line("warn", "file-empty", CurEntity, 0, 0),
                       Line("log", "nothing-to-seed", CurEntity, 0, 0)>>
    /\ invoked' = invoked \cup {CurEntity}
    /\ done' = done \cup {CurEntity}
    /\ entIdx' = entIdx + 1
    /\ pc' = AfterSeed
    /\ UNCHANGED <<files, store, clock, run, snap, rows, rowIdx, inflight,
                   disconnects, thrown, surfaced, exitCode, outcomes, issued>>

\* fs.readFileSync or parse throws: nothing in parseCSV or in the seed
\* function catches it, so it reaches main()'s catch block
ParseThrows ==
    /\ pc = "call"
    /\ files[CurEntity].kind = "malformed"
    /\ log' = log \o <<Line("log", "seeding", CurEntity, 0, 0)>>
    /\ invoked' = invoked \cup {CurEntity}
    /\ pc' = "catch"
    /\ UNCHANGED <<files, store, clock, run, snap, entIdx, rows, rowIdx, inflight,
                   disconnects, thrown, surfaced, exitCode, done, outcomes, issued>>

\* parseCSV returns the records; the for-of loop starts
ParseRows ==
    /\ pc = "call"
    /\ files[CurEntity].kind = "ok"
    /\ log' = log \o <<Line("log", "seeding", CurEntity, 0, 0)>>
    /\ invoked' = invoked \cup {CurEntity}
    /\ rows' = files[CurEntity].rows
    /\ rowIdx' = 1
    /\ pc' = "loop"
    /\ UNCHANGED <<files, store, clock, run, snap, entIdx, inflight,
                   disconnects, thrown, surfaced, exitCode, done, outcomes, issued>>

\* seedFavorites: `continue` on a row without its identifiers
SkipRow ==
    /\ pc = "loop"
    /\ rowIdx <= Len(rows)
    /\ SkipsRow(CurEntity, rows[rowIdx])
    /\ rowIdx' = rowIdx + 1
    /\ outcomes' = [outcomes EXCEPT ![CurEntity] = Append(@, "skipped")]
    /\ UNCHANGED <<files, store, clock, run, snap, pc, entIdx, rows, inflight, log,
                   disconnects, thrown, surfaced, exitCode, invoked, done, issued>>

\* the body of the try block up to the await: the argument is built (with its
\* warnings) and the upsert call is issued
IssueUpsert ==
    /\ pc = "loop"
    /\ rowIdx <= Len(rows)
    /\ ~SkipsRow(CurEntity, rows[rowIdx])
    /\ LET call == CallFor(CurEntity, rows[rowIdx], clock)
           c    == [ent |-> CurEntity, row |-> rowIdx, where |-> call.where,
                    update |-> call.update, create |-> call.create]
       IN  /\ log' = log \o WarnLines(call.warns, CurEntity, rowIdx)
           /\ inflight' = inflight \cup {c}
           /\ issued' = Append(issued, c)
    /\ rowIdx' = rowIdx + 1
    /\ pc' = AfterIssue
    /\ UNCHANGED <<files, store, clock, run, snap, entIdx, rows,
                   disconnects, thrown, surfaced, exitCode, invoked, done, outcomes>>

\* the store applies the upsert and the awaited promise resolves
UpsertResolves ==
    /\ pc = "await"
    /\ \E c \in inflight :
        /\ Accepts(c.ent, c, store)
        /\ store' = Upserted(c.ent, c, store)
        /\ inflight' = inflight \ {c}
        /\ outcomes' = [outcomes EXCEPT ![c.ent] = Append(@, "upserted")]
    /\ clock' = clock + 1
    /\ pc' = "loop"
    /\ UNCHANGED <<files, run, snap, entIdx, rows, rowIdx, log, disconnects,
                   thrown, surfaced, exitCode, invoked, done, issued>>

\* the store refuses the upsert; the awaited promise rejects and the per-row
\* catch block logs the row's id
UpsertRejects ==
    /\ pc = "await"
    /\ \E c \in inflight :
        /\ ~Accepts(c.ent, c, store)
        /\ inflight' = inflight \ {c}
        /\ outcomes' = [outcomes EXCEPT ![c.ent] = Append(@, "rejected")]
        /\ log' = Append(log, Line("error", "row-failed", c.ent, c.row, 0))
    /\ clock' = clock + 1
    /\ pc' = AfterReject
    /\ UNCHANGED <<files, store, run, snap, entIdx, rows, rowIdx, disconnects,
                   thrown, surfaced, exitCode, invoked, done, issued>>

\* the loop is over: the seed function logs the number of rows and returns
LoopEnd ==
    /\ pc = "loop"
    /\ rowIdx > Len(rows)
    /\ log' = Append(log, Line("log", "seeded", CurEntity, 0, Len(rows)))
    /\ done' = done \cup {CurEntity}
    /\ rows' = <<>>
    /\ rowIdx' = 1
    /\ entIdx' = entIdx + 1
    /\ pc' = AfterSeed
    /\ UNCHANGED <<files, store, clock, run, snap, inflight, disconnects,
                   thrown, surfaced, exitCode, invoked, outcomes, issued>>

\* the last statement of main()'s try block
MainSuccess ==
    /\ pc = "success"
    /\ log' = Append(log, Line("log", "seeded-successfully", "", 0, 0))
    /\ pc' = "finally"
    /\ UNCHANGED <<files, store, clock, run, snap, entIdx, rows, rowIdx, inflight,
                   disconnects, thrown, surfaced, exitCode, invoked, done,
                   outcomes, issued>>

\* main()'s catch block: log and rethrow
MainCatch ==
    /\ pc = "catch"
    /\ log' = Append(log, Line("error", "seeding-database", "", 0, 0))
    /\ thrown' = TRUE
    /\ pc' = AfterCatch
    /\ UNCHANGED <<files, store, clock, run, snap, entIdx, rows, rowIdx, inflight,
                   disconnects, surfaced, exitCode, invoked, done, outcomes, issued>>

\* main()'s finally block; main()'s promise settles after it
Disconnect ==
    /\ pc = "finally"
    /\ disconnects' = disconnects + 1
    /\ pc' = IF thrown THEN "rejected" ELSE "resolved"
    /\ UNCHANGED <<files, store, clock, run, snap, entIdx, rows, rowIdx, inflight,
                   log, thrown, surfaced, exitCode, invoked, done, outcomes, issued>>

\* main().catch(...): the caller logs the error and exits
CallerCatch ==
    /\ pc = "rejected"
    /\ log' = Append(log, Line("error", "uncaught", "", 0, 0))
    /\ surfaced' = TRUE
    /\ exitCode' = ExitCodeOnError
    /\ pc' = "exited"
    /\ UNCHANGED <<files, store, clock, run, snap, entIdx, rows, rowIdx, inflight,
                   disconnects, thrown, invoked, done, outcomes, issued>>

\* main()'s promise resolved: nothing is left to run and the process ends
ProcessEnd ==
    /\ pc = "resolved"
    /\ pc' = "exited"
    /\ UNCHANGED <<files, store, clock, run, snap, entIdx, rows, rowIdx, inflight,
                   log, disconnects, thrown, surfaced, exitCode, invoked, done,
                   outcomes, issued>>

\* `npm run db:seed` a second time, files untouched, against the database the
\* first execution left
Rerun ==
    /\ pc = "exited"
    /\ run = 1
    /\ run' = 2
    /\ snap' = store
    /\ clock' = clock + 1
    /\ pc' = "start"
    /\ entIdx' = 1
    /\ rows' = <<>>
    /\ rowIdx' = 1
    /\ inflight' = {}
    /\ log' = <<>>
    /\ disconnects' = 0
    /\ thrown' = FALSE
    /\ surfaced' = FALSE
    /\ exitCode' = 0
    /\ invoked' = {}
    /\ done' = {}
    /\ outcomes' = NoOutcomes
    /\ issued' = <<>>
    /\ UNCHANGED <<files, store>>

Next ==
    \/ Start
    \/ ParseMissing
    \/ ParseEmpty
    \/ ParseThrows
    \/ ParseRows
    \/ SkipRow
    \/ IssueUpsert
    \/ UpsertResolves
    \/ UpsertRejects
    \/ LoopEnd
    \/ MainSuccess
    \/ MainCatch
    \/ Disconnect
    \/ CallerCatch
    \/ ProcessEnd

Spec == Init /\ [][Next]_vars

NextTwice == Next \/ Rerun

SpecTwice == Init /\ [][NextTwice]_vars

----------------------------------------------------------------------------
(* Properties *)

\* the rows of entity e's file
FileRows(e) == files[e].rows

\* an upsert call for row k of entity e was issued in this execution
WasIssued(e, k) == \E i \in 1..Len(issued) : issued[i].ent = e /\ issued[i].row = k

\* the console lines of a level and message about row k of entity e
LinesAbout(lvl, msg, e, k) ==
    {i \in 1..Len(log) : log[i] = Line(lvl, msg, e, k, 0)}

\* a required identifier of a favorite row is undefined or the empty string
LacksIdentifier(row) ==
    \/ row.id \in {Absent, ""}
    \/ row.clerkId \in {Absent, ""}
    \/ row.productId \in {Absent, ""}

NoneMalformed == \A e \in Entities : files[e].kind # "malformed"

\* C1: Idempotence.  When the second execution over the unchanged files has
\* ended, the database is what the first execution left, for every table and
\* every row, favorite rows without createdAt/updatedAt included.
C1_SecondRunChangesNothing ==
    (run = 2 /\ pc = "exited") => store = snap

\* C2: Dependency ordering.  An upsert for a table with foreign keys is in
\* flight only when the seed function of every table it references has
\* returned in this execution.
C2_UpsertAfterReferencedSeeds ==
    \A c \in inflight : \A r \in References(c.ent) : r \in done

C2_Witness ==
    \E c \in inflight : c.ent = "cartItem" /\ {"product", "cart"} \subseteq done

\* C3: Per-row isolation.  A rejected upsert is caught and logged with its
\* row; every row of a seed function that returned was either issued or
\* skipped by the identifier guard, whatever happened to the rows before it;
\* main()'s catch block is entered only for a file that cannot be read or
\* parsed, never for a rejected row; and with no such file every seed
\* function has returned when the process ends.
C3_RejectedRowIsIsolated ==
    /\ \A e \in Entities : \A k \in 1..Len(outcomes[e]) :
          outcomes[e][k] = "rejected" =>
              /\ LinesAbout("error", "row-failed", e, k) # {}
              /\ WasIssued(e, k)
    /\ \A e \in done : \A k \in 1..Len(FileRows(e)) :
          \/ WasIssued(e, k)
          \/ (e = "favorite" /\ LacksIdentifier(FileRows(e)[k]))
    /\ (pc = "catch" \/ thrown) => files[CurEntity].kind = "malformed"
    /\ (pc = "exited" /\ NoneMalformed) => done = Entities

C3_Witness ==
    /\ pc = "exited"
    /\ Len(outcomes["cartItem"]) = 2
    /\ outcomes["cartItem"][1] = "rejected"
    /\ WasIssued("cartItem", 2)
    /\ "review" \in done

\* C4: The orchestrator never short-circuits.  When the process ends, all six
\* seed functions have been called and have returned, whatever the state of
\* the files (missing, empty, or not readable / not parsable).
C4_AllSeedsInvoked ==
    pc = "exited" => (invoked = Entities /\ done = Entities)

\* C5: Required-identifier skip.  A favorite row without id, clerkId or
\* productId is never issued and never logged about, the step that handles it
\* changes neither the database nor the console and moves to the next row.
C5_SkipInv ==
    \A k \in 1..Len(outcomes["favorite"]) :
        LacksIdentifier(FileRows("favorite")[k]) =>
            /\ outcomes["favorite"][k] = "skipped"
            /\ ~WasIssued("favorite", k)
            /\ \A i \in 1..Len(log) :
                  ~(log[i].ent = "favorite" /\ log[i].row = k)

C5_SkipStep ==
    (/\ pc = "loop"
     /\ CurEntity = "favorite"
     /\ rowIdx <= Len(rows)
     /\ LacksIdentifier(rows[rowIdx]))
    => (/\ store' = store
        /\ log' = log
        /\ issued' = issued
        /\ inflight' = inflight
        /\ thrown' = thrown
        /\ rowIdx' = rowIdx + 1
        /\ pc' = "loop")

C5_RequiredIdentifierSkip == []C5_SkipInv /\ [][C5_SkipStep]_vars

C5_Witness ==
    /\ Len(outcomes["favorite"]) = 2
    /\ outcomes["favorite"][1] = "skipped"
    /\ outcomes["favorite"][2] = "upserted"

\* C6: The connection is released exactly once on every exit path: at most
\* once ever, once when main()'s promise has settled, and before the caller's
\* handler sees the error; a run whose error escaped ends with a failure code.
C6_DisconnectExactlyOnce ==
    /\ disconnects <= 1
    /\ pc \in {"resolved", "rejected", "exited"} => disconnects = 1
    /\ surfaced => (disconnects = 1 /\ thrown)
    /\ (pc = "exited" /\ thrown) => (surfaced /\ exitCode # 0)

C6_Witness ==
    /\ pc = "exited"
    /\ thrown
    /\ surfaced
    /\ disconnects = 1
    /\ issued # <<>>

\* C7: Exit contract.  The process ends with a non-zero code exactly when an
\* error escaped main(), which happens only for a file that cannot be read or
\* parsed; a run in which all six seed functions returned ends with code 0
\* whatever was skipped or rejected.
C7_ExitCode ==
    pc = "exited" =>
        /\ (exitCode # 0) <=> thrown
        /\ thrown <=> (\E e \in invoked \ done : files[e].kind = "malformed")
        /\ done = Entities => exitCode = 0

C7_Witness ==
    /\ pc = "exited"
    /\ exitCode = 0
    /\ done = Entities
    /\ \E k \in 1..Len(outcomes["cartItem"]) : outcomes["cartItem"][k] = "rejected"
    /\ \E k \in 1..Len(outcomes["favorite"]) : outcomes["favorite"][k] = "skipped"

\* C8: Price coercion.  Every product upsert carries the parsed price, or 0
\* for an unparsable one, and exactly one warning is logged for an unparsable
\* price, none for a parsable one.  With the rows (P1, "19"), (P2, "abc")
\* the database holds P1 at 19 and P2 at 0, one warning is logged in all and
\* 2 rows are reported.
C8_PriceInv ==
    \A i \in 1..Len(issued) :
        issued[i].ent = "product" =>
            LET row    == FileRows("product")[issued[i].row]
                parsed == ParseInt(row.price)
            IN  /\ issued[i].create.price = (IF parsed.nan THEN 0 ELSE parsed.v)
                /\ issued[i].update.price = (IF parsed.nan THEN 0 ELSE parsed.v)
                /\ Cardinality(LinesAbout("warn", "parse-int", "product", issued[i].row))
                      = (IF parsed.nan THEN 1 ELSE 0)

C8_Scenario ==
    (/\ "product" \in done
     /\ Len(FileRows("product")) = 2
     /\ FileRows("product")[1].id = "P1" /\ FileRows("product")[1].price = Str19
     /\ FileRows("product")[2].id = "P2" /\ FileRows("product")[2].price = StrAbc)
    => (/\ store["product"]["P1"].price = 19
        /\ store["product"]["P2"].price = 0
        /\ Cardinality({i \in 1..Len(log) : log[i].lvl = "warn" /\ log[i].msg = "parse-int"
                                            /\ log[i].ent = "product"}) = 1
        /\ \E i \in 1..Len(log) : log[i] = Line("log", "seeded", "product", 0, 2))

C8_PriceCoercionWarnsOnce == C8_PriceInv /\ C8_Scenario

\* C9: A coercion error is never fatal to its row.  No upsert argument holds
\* an Invalid Date, and a row whose only fault is an unparsable number or
\* date is not refused.
C9_NoInvalidDateInUpsert ==
    /\ \A i \in 1..Len(issued) :
          /\ issued[i].update.createdAt # InvalidDate
          /\ issued[i].update.updatedAt # InvalidDate
          /\ issued[i].create.createdAt # InvalidDate
          /\ issued[i].create.updatedAt # InvalidDate
    /\ \A k \in 1..Len(outcomes["cart"]) : outcomes["cart"][k] # "rejected"

\* C10: Strictly sequential.  At most one upsert is in flight; while one is,
\* the loop is suspended and the connection is open; the call in flight is
\* for the row right after the rows already settled; calls of one seed
\* function were issued in file order.
C10_Sequential ==
    /\ Cardinality(inflight) <= 1
    /\ inflight # {} => (pc = "await" /\ disconnects = 0)
    /\ \A c \in inflight : c.ent = CurEntity /\ Len(outcomes[c.ent]) = c.row - 1
    /\ (pc = "loop" /\ rowIdx <= Len(rows)) => Len(outcomes[CurEntity]) = rowIdx - 1
    /\ \A i, j \in 1..Len(issued) :
          (i < j /\ issued[i].ent = issued[j].ent) => issued[i].row < issued[j].row
    /\ pc \in {"finally", "resolved", "rejected", "exited"} => inflight = {}

C10_Witness ==
    \E c \in inflight : c.row = 2 /\ outcomes[c.ent][1] = "rejected"

====
